---- MODULE Spec2Model ----
(***************************************************************************)
(* remote-serial-server: a TCP <-> serial byte relay (src/src/main.rs).    *)
(*                                                                         *)
(* The model follows main(): data-bits selection, serial open, TCP bind,   *)
(* one accept, then the select! loop that races a serial read against a    *)
(* socket read and forwards the bytes read with write_all.  The serial     *)
(* device, the TCP peer and the kernel (receive queues, listen backlog,    *)
(* I/O faults) are the environment.                                        *)
(*                                                                         *)
(* Environment steps are taken between iterations of the loop only: they   *)
(* touch no variable an awaited write_all reads or writes, so a step taken *)
(* while a write is awaited leads to the same state as the same step taken *)
(* right after it.                                                         *)
(***************************************************************************)
EXTENDS Integers, Sequences, FiniteSets, TLC

\* ---------------------------------------------------------------- constants

\* let mut serial_buf = [0u8; 1024]; let mut socket_buf = [0u8; 1024];
BUF_SIZE == 1024

\* #[arg(long, default_value_t = 8)] data_bits: u8
DEFAULT_DATA_BITS == 8

\* ------------------------------------------------------------------- bounds

\* deliveries of data to the relay (device emissions and peer writes together)
MaxEmits == 1
\* I/O faults in total: reads that return Err or a spurious Ok(0), failed writes
MaxFaults == 1
\* inbound TCP connections that reach the listener
MaxConns == 2

\* --------------------------------------------------------------- test data

Min(a, b) == IF a < b THEN a ELSE b

Pattern(len, seed) == [i \in 1..len |-> (seed + 7 * i) % 251]

\* "PING\n"
PING == <<80, 73, 78, 71, 10>>

\* what the TCP peer may write in one write call: 5 bytes, or one buffer's
\* worth and 5 bytes more
PeerData == {PING, Pattern(BUF_SIZE + 5, 17)}

\* what the serial device may emit at once: 2 bytes, or two buffers' worth
DeviceData == {<<79, 75>>, Pattern(2 * BUF_SIZE, 3)}

VARIABLES
    pc,            \* position in main()
    args,          \* Args::parse()
    data_bits,     \* the DataBits chosen by the match, 0 before it
    serial,        \* the serial handle: Unopened or its configuration
    listener,      \* "none" | "bound"
    steps,         \* history: the startup steps attempted, with their outcome
    backlog,       \* connections waiting in the listener's accept queue
    conns,         \* connections that have reached the listener so far
    socket,        \* the accepted connection's id, 0 before accept
    accepts,       \* completed listener.accept() calls
    peer_closed,   \* the accepted peer has shut down its side
    rx_serial,     \* bytes the device has emitted, not yet read
    rx_socket,     \* bytes the peer has written, not yet read
    tx_serial,     \* bytes the serial device has received
    tx_socket,     \* bytes the TCP peer has received
    serial_buf,
    socket_buf,
    n,             \* the n of Ok(n) while its write_all is awaited
    stdout,
    stderr,
    exit_code,     \* -1 while the process runs
    sent_serial,   \* history: every byte the device emitted
    sent_socket,   \* history: every byte the peer wrote
    marks_serial,  \* history: end offset of each device emission
    marks_socket,  \* history: end offset of each peer write
    faults,        \* history: number of I/O faults so far
    seen,          \* history: the reads so far that returned Ok(0) or Err
    log            \* history: one record per read that returned n >= 1 bytes

cfgVars == <<args, data_bits, serial, listener, steps>>
lsnVars == <<backlog, conns>>
conVars == <<socket, accepts>>
serInVars == <<rx_serial, sent_serial, marks_serial>>
sockInVars == <<rx_socket, sent_socket, marks_socket>>
txVars == <<tx_serial, tx_socket>>
bufVars == <<serial_buf, socket_buf>>
outVars == <<stdout, stderr, exit_code>>

vars == <<pc, cfgVars, lsnVars, conVars, peer_closed, serInVars, sockInVars,
          txVars, bufVars, n, outVars, faults, seen, log>>

ZeroBuf == [i \in 1..BUF_SIZE |-> 0]

\* `serial` before open_native_async() has returned a port
Unopened == [data_bits |-> 0, flow_control |-> "unopened"]

\* the process right after Args::parse(), run with the given --data-bits
InitWith(bits) ==
    /\ pc = "parse"
    /\ args = [data_bits |-> bits]
    /\ data_bits = 0
    /\ serial = Unopened
    /\ listener = "none"
    /\ steps = <<>>
    /\ backlog = <<>>
    /\ conns = 0
    /\ socket = 0
    /\ accepts = 0
    /\ peer_closed = FALSE
    /\ rx_serial = <<>>
    /\ rx_socket = <<>>
    /\ tx_serial = <<>>
    /\ tx_socket = <<>>
    /\ serial_buf = ZeroBuf
    /\ socket_buf = ZeroBuf
    /\ n = 0
    /\ stdout = <<>>
    /\ stderr = <<>>
    /\ exit_code = -1
    /\ sent_serial = <<>>
    /\ sent_socket = <<>>
    /\ marks_serial = <<>>
    /\ marks_socket = <<>>
    /\ faults = 0
    /\ seen = {}
    /\ log = <<>>

\* a run without --data-bits
Init == InitWith(DEFAULT_DATA_BITS)

\* ------------------------------------------------------------------ startup

\* an unsupported value moved to the nearest supported one
MatchDataBitsClamped(d) == IF d < 5 THEN 5 ELSE IF d > 8 THEN 8 ELSE d

\* let data_bits = match args.data_bits { 5 | 6 | 7 | 8 => it, _ => Eight }
MatchDataBits(d) == IF d \in {5, 6, 7, 8} THEN d ELSE 8

ParseArgs ==
    /\ pc = "parse"
    /\ data_bits' = MatchDataBits(args.data_bits)
    /\ stderr' = IF args.data_bits \in {5, 6, 7, 8}
                 THEN stderr
                 ELSE Append(stderr, "Unsupported data bits")
    /\ pc' = "open"
    /\ UNCHANGED <<args, serial, listener, steps, stdout, exit_code>>
    /\ UNCHANGED <<lsnVars, conVars, peer_closed, serInVars, sockInVars,
                   txVars, bufVars, n, faults, seen, log>>

\* a failed startup step whose error is dropped instead of returned
StartupFailIgnored == "bind"

\* where the `?` of a failed startup step leaves main()
StartupFailNext == "exit"

\* the `?` on a failed startup step: main returns Err, the process exits 1
FailStartup(step) ==
    /\ steps' = Append(steps, <<step, "failed">>)
    /\ pc' = StartupFailNext
    /\ exit_code' = 1
    /\ stderr' = Append(stderr, "Error")

\* the statement after open_native_async()?
AfterOpen == "bind"

\* the statement after TcpListener::bind(..).await?
AfterBind == "accept"

\* the statement after listener.accept().await?
AfterAccept == "select"

OpenSerial ==
    /\ pc = "open"
    /\ \/ /\ serial' = [data_bits |-> data_bits, flow_control |-> "None"]
          /\ steps' = Append(steps, <<"open", "ok">>)
          /\ pc' = AfterOpen
          /\ UNCHANGED <<exit_code, stderr>>
       \/ /\ FailStartup("open")
          /\ UNCHANGED serial
    /\ UNCHANGED <<args, data_bits, listener, stdout>>
    /\ UNCHANGED <<lsnVars, conVars, peer_closed, serInVars, sockInVars,
                   txVars, bufVars, n, faults, seen, log>>

BindListener ==
    /\ pc = "bind"
    /\ \/ /\ listener' = "bound"
          /\ steps' = Append(steps, <<"bind", "ok">>)
          /\ stdout' = Append(stdout, "Listening on port")
          /\ pc' = AfterBind
          /\ UNCHANGED <<exit_code, stderr>>
       \/ /\ FailStartup("bind")
          /\ UNCHANGED <<listener, stdout>>
    /\ UNCHANGED <<args, data_bits, serial>>
    /\ UNCHANGED <<lsnVars, conVars, peer_closed, serInVars, sockInVars,
                   txVars, bufVars, n, faults, seen, log>>

\* accept() moved into the loop
AcceptInLoop == {"accept", "select"}

\* where in main() listener.accept() is awaited
AcceptAt == {"accept"}

\* listener.accept().await? : a connection from the backlog, or an error
Accept ==
    /\ pc \in AcceptAt
    /\ \/ /\ backlog # <<>>
          /\ socket' = Head(backlog)
          /\ backlog' = Tail(backlog)
          /\ accepts' = accepts + 1
          /\ steps' = Append(steps, <<"accept", "ok">>)
          /\ stdout' = Append(stdout, "Client connected")
          /\ pc' = AfterAccept
          /\ UNCHANGED <<exit_code, stderr>>
       \/ /\ FailStartup("accept")
          /\ UNCHANGED <<socket, backlog, accepts, stdout>>
    /\ UNCHANGED <<args, data_bits, serial, listener, conns>>
    /\ UNCHANGED <<peer_closed, serInVars, sockInVars, txVars, bufVars, n,
                   faults, seen, log>>

\* --------------------------------------------------------------- relay loop

Relaying == {"select", "write_socket", "write_serial"}

\* a read that leaves the last byte of the buffer unused
ReadLenShort(avail) == Min(avail, BUF_SIZE - 1)

\* read(&mut buf) with buf.len() = 1024: at most one buffer's worth
ReadLen(avail) == Min(avail, BUF_SIZE)

\* a read that stores the bytes one position late
ReadIntoShifted(buf, data) ==
    [i \in 1..BUF_SIZE |->
        IF 1 < i /\ i <= Len(data) + 1 THEN data[i - 1] ELSE buf[i]]

\* read(&mut buf) stores the bytes read at the front of buf
ReadInto(buf, data) ==
    [i \in 1..BUF_SIZE |-> IF i <= Len(data) THEN data[i] ELSE buf[i]]

\* the whole buffer written instead of the first k bytes
SliceWhole(buf, k) == buf

\* &serial_buf[..n], &socket_buf[..n]
Slice(buf, k) == SubSeq(buf, 1, k)

\* `break` (or `?`) on a read error
ReadErrBreak == "exit"

\* `continue` after a read error
ReadErrNext == "select"

\* Ok(0) taken for the end of the stream: `break`
ZeroReadBreak == "exit"

\* the Ok(_) => {} arm: fall through to the next iteration
ZeroReadNext == "select"

\* `break` after write_all failed
WriteFailBreak == "exit"

\* `continue` after write_all failed
WriteFailNext == "select"

\* no `loop`: main ends after the first forwarded chunk
WriteOkReturn == "exit"

\* the end of the Ok(n) arm after write_all succeeded
WriteOkNext == "select"

\* each read wrapped in a timeout: with nothing queued it ends in Err(Elapsed)
ReadResultsWithTimeout(rx, eof) ==
    (IF rx # <<>>
     THEN {[kind |-> "data", len |-> ReadLen(Len(rx)), fault |-> FALSE]}
     ELSE IF eof
          THEN {[kind |-> "zero", len |-> 0, fault |-> FALSE]}
          ELSE {[kind |-> "err", len |-> 0, fault |-> FALSE]})
    \cup
    (IF faults < MaxFaults
     THEN {[kind |-> "zero", len |-> 0, fault |-> TRUE],
           [kind |-> "err", len |-> 0, fault |-> TRUE]}
     ELSE {})

\* the results a read can complete with: Ok(k) with k >= 1 when bytes are
\* queued, Ok(0) at end of stream, and at any time Err or a spurious Ok(0)
ReadResults(rx, eof) ==
    (IF rx # <<>>
     THEN {[kind |-> "data", len |-> ReadLen(Len(rx)), fault |-> FALSE]}
     ELSE IF eof
          THEN {[kind |-> "zero", len |-> 0, fault |-> FALSE]}
          ELSE {})
    \cup
    (IF faults < MaxFaults
     THEN {[kind |-> "zero", len |-> 0, fault |-> TRUE],
           [kind |-> "err", len |-> 0, fault |-> TRUE]}
     ELSE {})

\* a read of len >= 1 bytes at offset off of the source's stream, which held
\* avail bytes, and the write_all it leads to: where the destination's stream
\* stood when it was called, how it ended and how many bytes it got out
Entry(src, off, avail, len, txoff) ==
    [src |-> src, off |-> off, avail |-> avail, len |-> len, txoff |-> txoff,
     res |-> "pending", wrote |-> 0]

\* the write handed to tokio::spawn: the loop goes on reading while it runs
ReadsIssuedAnytime == {"select", "write_socket", "write_serial"}

\* where the two reads are issued: at the top of each iteration, by select!
ReadsIssuedAt == {"select"}

\* a losing read that had already taken its bytes when it was dropped
CancelledReadTook(rx) == SubSeq(rx, ReadLen(Len(rx)) + 1, Len(rx))

\* select! drops the read that did not complete first: it has taken no byte
\* from its endpoint's queue
CancelledRead(rx) == rx

\* read_serial = serial.read(&mut serial_buf) => match read_serial {..}
SerialBranch ==
    /\ pc \in ReadsIssuedAt
    /\ \E r \in ReadResults(rx_serial, FALSE) :
         LET off == Len(sent_serial) - Len(rx_serial)
             buf == ReadInto(serial_buf, SubSeq(rx_serial, 1, r.len))
         IN  /\ faults' = IF r.fault THEN faults + 1 ELSE faults
             /\ CASE r.kind = "data" ->
                       /\ serial_buf' = buf
                       /\ rx_serial' = SubSeq(rx_serial, r.len + 1,
                                              Len(rx_serial))
                       /\ n' = r.len
                       /\ pc' = "write_socket"
                       /\ log' = Append(log, Entry("serial", off,
                                                   Len(rx_serial), r.len,
                                                   Len(tx_socket)))
                       /\ UNCHANGED <<stderr, seen>>
                  [] r.kind = "zero" ->
                       /\ pc' = ZeroReadNext
                       /\ seen' = seen \cup {<<"serial", "zero">>}
                       /\ UNCHANGED <<serial_buf, rx_serial, n, stderr, log>>
                  [] r.kind = "err" ->
                       /\ stderr' = Append(stderr, "Serial read error")
                       /\ pc' = ReadErrNext
                       /\ seen' = seen \cup {<<"serial", "err">>}
                       /\ UNCHANGED <<serial_buf, rx_serial, n, log>>
    /\ rx_socket' = CancelledRead(rx_socket)
    /\ UNCHANGED <<sent_serial, marks_serial, socket_buf, stdout, exit_code>>
    /\ UNCHANGED <<cfgVars, lsnVars, conVars, peer_closed, txVars>>
    /\ UNCHANGED <<sent_socket, marks_socket>>

\* read_socket = socket.read(&mut socket_buf) => match read_socket {..}
SocketBranch ==
    /\ pc \in ReadsIssuedAt
    /\ \E r \in ReadResults(rx_socket, peer_closed) :
         LET off == Len(sent_socket) - Len(rx_socket)
             buf == ReadInto(socket_buf, SubSeq(rx_socket, 1, r.len))
         IN  /\ faults' = IF r.fault THEN faults + 1 ELSE faults
             /\ CASE r.kind = "data" ->
                       /\ socket_buf' = buf
                       /\ rx_socket' = SubSeq(rx_socket, r.len + 1,
                                              Len(rx_socket))
                       /\ n' = r.len
                       /\ pc' = "write_serial"
                       /\ log' = Append(log, Entry("socket", off,
                                                   Len(rx_socket), r.len,
                                                   Len(tx_serial)))
                       /\ UNCHANGED <<stderr, seen>>
                  [] r.kind = "zero" ->
                       /\ pc' = ZeroReadNext
                       /\ seen' = seen \cup {<<"socket", "zero">>}
                       /\ UNCHANGED <<socket_buf, rx_socket, n, stderr, log>>
                  [] r.kind = "err" ->
                       /\ stderr' = Append(stderr, "Socket read error")
                       /\ pc' = ReadErrNext
                       /\ seen' = seen \cup {<<"socket", "err">>}
                       /\ UNCHANGED <<socket_buf, rx_socket, n, log>>
    /\ rx_serial' = CancelledRead(rx_serial)
    /\ UNCHANGED <<sent_socket, marks_socket, serial_buf, stdout, exit_code>>
    /\ UNCHANGED <<cfgVars, lsnVars, conVars, peer_closed, txVars>>
    /\ UNCHANGED <<sent_serial, marks_serial>>

\* how much of the payload a failing write_all got out before the error
FailPrefixes(k) == {0, k - 1}

Settle(res, wrote) ==
    [log EXCEPT ![Len(log)].res = res, ![Len(log)].wrote = wrote]

\* socket.write_all(&serial_buf[..n]).await and the is_err() test on it
SocketWriteAll ==
    /\ pc = "write_socket"
    /\ LET payload == Slice(serial_buf, n)
       IN  \/ /\ tx_socket' = tx_socket \o payload
              /\ log' = Settle("ok", Len(payload))
              /\ pc' = WriteOkNext
              /\ UNCHANGED <<stdout, faults>>
           \/ /\ faults < MaxFaults
              /\ faults' = faults + 1
              /\ \E k \in FailPrefixes(Len(payload)) :
                   /\ tx_socket' = tx_socket \o SubSeq(payload, 1, k)
                   /\ log' = Settle("failed", k)
              /\ stdout' = Append(stdout, "Client write failed")
              /\ pc' = WriteFailNext
    /\ n' = 0
    /\ UNCHANGED <<tx_serial, bufVars, stderr, exit_code, seen>>
    /\ UNCHANGED <<cfgVars, lsnVars, conVars, peer_closed, serInVars,
                   sockInVars>>

\* serial.write_all(&socket_buf[..n]).await and the is_err() test on it
SerialWriteAll ==
    /\ pc = "write_serial"
    /\ LET payload == Slice(socket_buf, n)
       IN  \/ /\ tx_serial' = tx_serial \o payload
              /\ log' = Settle("ok", Len(payload))
              /\ pc' = WriteOkNext
              /\ UNCHANGED <<stdout, faults>>
           \/ /\ faults < MaxFaults
              /\ faults' = faults + 1
              /\ \E k \in FailPrefixes(Len(payload)) :
                   /\ tx_serial' = tx_serial \o SubSeq(payload, 1, k)
                   /\ log' = Settle("failed", k)
              /\ stdout' = Append(stdout, "Serial write failed")
              /\ pc' = WriteFailNext
    /\ n' = 0
    /\ UNCHANGED <<tx_socket, bufVars, stderr, exit_code, seen>>
    /\ UNCHANGED <<cfgVars, lsnVars, conVars, peer_closed, serInVars,
                   sockInVars>>

\* -------------------------------------------------------------- environment

progVars == <<pc, cfgVars, conVars, txVars, bufVars, n, outVars, seen, log>>

\* the serial device emits bytes; the tty queues them for the next read
DeviceEmit ==
    /\ pc = "select"
    /\ Len(marks_serial) + Len(marks_socket) < MaxEmits
    /\ \E B \in DeviceData :
         /\ rx_serial' = rx_serial \o B
         /\ sent_serial' = sent_serial \o B
         /\ marks_serial' = Append(marks_serial, Len(sent_serial) + Len(B))
    /\ UNCHANGED <<progVars, lsnVars, peer_closed, sockInVars, faults>>

\* the accepted peer writes bytes in one write call
PeerSend ==
    /\ pc = "select"
    /\ ~peer_closed
    /\ Len(marks_serial) + Len(marks_socket) < MaxEmits
    /\ \E B \in PeerData :
         /\ rx_socket' = rx_socket \o B
         /\ sent_socket' = sent_socket \o B
         /\ marks_socket' = Append(marks_socket, Len(sent_socket) + Len(B))
    /\ UNCHANGED <<progVars, lsnVars, peer_closed, serInVars, faults>>

\* the accepted peer disconnects: socket reads return Ok(0) once drained
PeerClose ==
    /\ pc = "select"
    /\ ~peer_closed
    /\ peer_closed' = TRUE
    /\ UNCHANGED <<progVars, lsnVars, serInVars, sockInVars, faults>>

\* an inbound connection completes its handshake and waits to be accepted
PeerConnect ==
    /\ listener = "bound"
    /\ pc \in {"accept", "select"}
    /\ conns < MaxConns
    /\ conns' = conns + 1
    /\ backlog' = Append(backlog, conns + 1)
    /\ UNCHANGED <<progVars, peer_closed, serInVars, sockInVars, faults>>

\* ------------------------------------------------------------ specification

Next ==
    \/ ParseArgs
    \/ OpenSerial
    \/ BindListener
    \/ Accept
    \/ SerialBranch
    \/ SocketBranch
    \/ SocketWriteAll
    \/ SerialWriteAll
    \/ DeviceEmit
    \/ PeerSend
    \/ PeerClose
    \/ PeerConnect

Spec == Init /\ [][Next]_vars

\* select! polls its ready branches in random order, so a branch that is
\* ready again and again is taken; a write_all that is awaited completes
\* when the destination takes the bytes or reports an error
FairSpec ==
    /\ Spec
    /\ SF_vars(SerialBranch)
    /\ SF_vars(SocketBranch)
    /\ WF_vars(SocketWriteAll)
    /\ WF_vars(SerialWriteAll)

\* the relay at the top of its loop after a clean default startup, with a
\* device emission and a peer write both queued before the first read
RaceInit ==
    \E d \in DeviceData, p \in PeerData :
      /\ pc = "select"
      /\ args = [data_bits |-> DEFAULT_DATA_BITS]
      /\ data_bits = MatchDataBits(DEFAULT_DATA_BITS)
      /\ serial = [data_bits |-> MatchDataBits(DEFAULT_DATA_BITS),
                   flow_control |-> "None"]
      /\ listener = "bound"
      /\ steps = <<<<"open", "ok">>, <<"bind", "ok">>, <<"accept", "ok">>>>
      /\ backlog = <<>>
      /\ conns = 1
      /\ socket = 1
      /\ accepts = 1
      /\ peer_closed = FALSE
      /\ rx_serial = d
      /\ rx_socket = p
      /\ tx_serial = <<>>
      /\ tx_socket = <<>>
      /\ serial_buf = ZeroBuf
      /\ socket_buf = ZeroBuf
      /\ n = 0
      /\ stdout = <<"Listening on port", "Client connected">>
      /\ stderr = <<>>
      /\ exit_code = -1
      /\ sent_serial = d
      /\ sent_socket = p
      /\ marks_serial = <<Len(d)>>
      /\ marks_socket = <<Len(p)>>
      /\ faults = 0
      /\ seen = {}
      /\ log = <<>>

\* the relay loop, the peer's disconnect and later connection attempts
RaceNext ==
    \/ SerialBranch
    \/ SocketBranch
    \/ SocketWriteAll
    \/ SerialWriteAll
    \/ PeerClose
    \/ PeerConnect

\* the relay with both directions loaded at once
RaceSpec == RaceInit /\ [][RaceNext]_vars

\* every value the u8 --data-bits argument can take
ArgsInit == \E bits \in 0..255 : InitWith(bits)

\* main() up to the first iteration of the loop
StartupNext ==
    \/ ParseArgs
    \/ OpenSerial
    \/ BindListener
    \/ Accept
    \/ PeerConnect

\* startup under every --data-bits value
ArgsSpec == ArgsInit /\ [][StartupNext]_vars

\* ------------------------------------------------------------------ streams

SrcStream(src) == IF src = "serial" THEN sent_serial ELSE sent_socket

SrcQueue(src) == IF src = "serial" THEN rx_serial ELSE rx_socket

DstStream(src) == IF src = "serial" THEN tx_socket ELSE tx_serial

SrcBuf(src) == IF src = "serial" THEN serial_buf ELSE socket_buf

WritePc(src) == IF src = "serial" THEN "write_socket" ELSE "write_serial"

Sources == {"serial", "socket"}

\* the bytes a read took from its source
Bytes(e) == SubSeq(SrcStream(e.src), e.off + 1, e.off + e.len)

\* the bytes its write_all put on the destination
Written(e) == SubSeq(DstStream(e.src), e.txoff + 1, e.txoff + e.wrote)

\* the reads of one source, and the one before the i-th among them
Of(src) == {i \in 1..Len(log) : log[i].src = src}

Before(i) == {j \in Of(log[i].src) : j < i}

Prev(i) == CHOOSE j \in Before(i) : \A k \in Before(i) : k <= j

LastOf(src) == CHOOSE j \in Of(src) : \A k \in Of(src) : k <= j

Consumed(src) == Len(SrcStream(src)) - Len(SrcQueue(src))

\* the k-th emission of a source covers offsets Lo+1..Hi of its stream
Marks(src) == IF src = "serial" THEN marks_serial ELSE marks_socket

Lo(src, k) == IF k = 1 THEN 0 ELSE Marks(src)[k - 1]

Hi(src, k) == Marks(src)[k]

\* the reads that took bytes of the k-th emission
Carriers(src, k) ==
    {i \in Of(src) : log[i].off < Hi(src, k)
                     /\ log[i].off + log[i].len > Lo(src, k)}

FirstCarrier(src, k) ==
    CHOOSE i \in Carriers(src, k) : \A j \in Carriers(src, k) : i <= j

\* where on the destination's stream the k-th emission starts
DstStart(src, k) ==
    log[FirstCarrier(src, k)].txoff
        + (Lo(src, k) - log[FirstCarrier(src, k)].off)

\* the destination holds the k-th emission, whole, in order and unaltered
Delivered(src, k) ==
    /\ Len(Marks(src)) >= k
    /\ Consumed(src) >= Hi(src, k)
    /\ \A i \in Carriers(src, k) : log[i].res = "ok"
    /\ SubSeq(DstStream(src), DstStart(src, k) + 1,
              DstStart(src, k) + Hi(src, k) - Lo(src, k))
         = SubSeq(SrcStream(src), Lo(src, k) + 1, Hi(src, k))

\* a write_all carrying bytes of the k-th emission failed
Dropped(src, k) ==
    /\ Len(Marks(src)) >= k
    /\ \E i \in Carriers(src, k) : log[i].res = "failed"

\* the steps of the loop by the result of their read
ReadErrStep == (SerialBranch \/ SocketBranch) /\ stderr' # stderr

ZeroReadStep ==
    /\ SerialBranch \/ SocketBranch
    /\ stderr' = stderr
    /\ rx_serial' = rx_serial
    /\ rx_socket' = rx_socket

SerialDataStep == SerialBranch /\ rx_serial' # rx_serial

SocketDataStep == SocketBranch /\ rx_socket' # rx_socket

\* the bytes just read are the payload of a write_all now awaited
SerialForwarded ==
    /\ pc' = "write_socket"
    /\ n' = Len(rx_serial) - Len(rx_serial')
    /\ n' >= 1
    /\ Slice(serial_buf', n') = SubSeq(rx_serial, 1, n')
    /\ Len(log') = Len(log) + 1
    /\ log'[Len(log')].res = "pending"
    /\ log'[Len(log')].src = "serial"

SocketForwarded ==
    /\ pc' = "write_serial"
    /\ n' = Len(rx_socket) - Len(rx_socket')
    /\ n' >= 1
    /\ Slice(socket_buf', n') = SubSeq(rx_socket, 1, n')
    /\ Len(log') = Len(log) + 1
    /\ log'[Len(log')].res = "pending"
    /\ log'[Len(log')].src = "socket"

\* nothing was written, nothing consumed, the relay is at the top of the loop
NothingForwarded ==
    /\ pc' = "select"
    /\ UNCHANGED <<txVars, bufVars, n, log, rx_serial, rx_socket, stdout,
                   exit_code, cfgVars, conVars>>

ErrSeen == \E src \in Sources : <<src, "err">> \in seen

ZeroSeen == \E src \in Sources : <<src, "zero">> \in seen

\* ------------------------------------------------------------------- claims

\* C1 as stated: whatever faults occurred, a failed forwarding write
\* included, once the relay is back at the top of the loop with nothing left
\* to read from the socket, the serial endpoint has received everything the
\* peer wrote.
C1_Original ==
    (pc = "select" /\ rx_socket = <<>>) => tx_serial = sent_socket

\* C1, amended: under fair scheduling, every byte sequence the TCP peer
\* writes in one call eventually either is held by the serial endpoint whole,
\* in order and unaltered, or was carried by a forwarding write that failed
\* (the relay drops such a chunk), whatever other reads, zero-length reads and
\* read errors occur.
C1_PeerWriteDeliveredOrDropped ==
    \A k \in 1..MaxEmits :
        (Len(marks_socket) >= k)
            ~> (Delivered("socket", k) \/ Dropped("socket", k))

\* the peer's first write has reached the serial endpoint whole although a
\* read failed or returned zero bytes on the way
C1_Witness ==
    /\ Delivered("socket", 1)
    /\ seen # {}

\* C2 as stated: whatever faults occurred, a failed forwarding write
\* included, once the relay is back at the top of the loop with nothing left
\* to read from the serial device, the TCP peer has received everything the
\* device emitted.
C2_Original ==
    (pc = "select" /\ rx_serial = <<>>) => tx_socket = sent_serial

\* C2, amended: under fair scheduling, every byte sequence the serial device
\* emits eventually either is held by the TCP peer whole, in order and
\* unaltered, or was carried by a forwarding write that failed (the relay
\* drops such a chunk), whatever other reads, zero-length reads and read
\* errors occur.
C2_DeviceDataDeliveredOrDropped ==
    \A k \in 1..MaxEmits :
        (Len(marks_serial) >= k)
            ~> (Delivered("serial", k) \/ Dropped("serial", k))

\* the device's first emission has reached the peer whole although a read
\* failed or returned zero bytes on the way
C2_Witness ==
    /\ Delivered("serial", 1)
    /\ seen # {}

\* C3: a read that returns Err writes nothing, consumes nothing and leaves
\* the relay at the top of the loop with both endpoints as they were; and
\* after a read error, a read of n >= 1 bytes from either endpoint still leads
\* to a write_all of exactly those bytes to the opposite endpoint.
C3_ReadErrorNonFatal ==
    [][/\ ReadErrStep => NothingForwarded
       /\ (ErrSeen /\ SerialDataStep) => SerialForwarded
       /\ (ErrSeen /\ SocketDataStep) => SocketForwarded]_vars

\* a socket read failed earlier and bytes read from the socket afterwards are
\* being written to the serial endpoint
C3_Witness ==
    /\ <<"socket", "err">> \in seen
    /\ pc = "write_serial"
    /\ log[Len(log)].res = "pending"

\* C4: after a forwarding write failed the relay is still relaying; the
\* reads after it take up the source where the failed chunk ended, and a later
\* chunk whose write succeeds arrives complete, in order and unaltered, right
\* after whatever prefix of the failed chunk got out.
C4_WriteFailureIsolated ==
    \A i \in 1..Len(log) :
        log[i].res = "failed" =>
            /\ pc \in Relaying
            /\ exit_code = -1
            /\ \A j \in (i + 1)..Len(log) :
                  LET e == log[j]
                  IN  /\ e.res = "ok" =>
                            e.wrote = e.len /\ Written(e) = Bytes(e)
                      /\ e.res = "pending" =>
                            Slice(SrcBuf(e.src), n) = Bytes(e)
                      /\ e.src = log[i].src =>
                            /\ e.off >= log[i].off + log[i].len
                            /\ e.txoff >= log[i].txoff + log[i].wrote
                      /\ (e.src = log[i].src /\ Prev(j) = i) =>
                            /\ e.off = log[i].off + log[i].len
                            /\ e.txoff = log[i].txoff + log[i].wrote

\* a write failed after part of its chunk got out, and the next chunk of the
\* same source, no longer than the failed one, was forwarded in full
C4_Witness ==
    \E i \in 1..Len(log) : \E j \in 1..Len(log) :
        /\ i < j
        /\ log[i].res = "failed" /\ log[i].wrote > 0
        /\ log[j].src = log[i].src
        /\ log[j].res = "ok"
        /\ log[j].len <= log[i].len

\* C5: a read that returns Ok(0) writes nothing to either endpoint and leaves
\* the relay at the top of the loop; and after a zero-length read, a read of
\* n >= 1 bytes from either endpoint still leads to a write_all of exactly
\* those bytes to the opposite endpoint.
C5_ZeroReadIgnored ==
    [][/\ ZeroReadStep => NothingForwarded
       /\ (ZeroSeen /\ SerialDataStep) => SerialForwarded
       /\ (ZeroSeen /\ SocketDataStep) => SocketForwarded]_vars

\* the serial read returned zero bytes earlier and bytes read from the serial
\* device afterwards are being written to the socket
C5_Witness ==
    /\ <<"serial", "zero">> \in seen
    /\ pc = "write_socket"
    /\ log[Len(log)].res = "pending"

\* C6: once the relay loop is entered, no relay event (a read of data, a
\* zero-length read, a read error, a write error, in any order) takes the
\* process out of the relaying state or makes it exit.
C6_NeverLeavesRelay ==
    [][(pc \in Relaying) => (pc' \in Relaying /\ exit_code' = exit_code)]_vars

\* the relay is still relaying after every fault the bounds allow, with a read
\* error or spurious zero-length read or failed write behind it
C6_Witness ==
    /\ pc = "select"
    /\ faults = MaxFaults
    /\ log # <<>>

\* C7: a read takes min(available, 1024) bytes, so a source holding more than
\* 1024 bytes is forwarded in successive chunks of at most 1024 bytes, taken in
\* source order without gap or overlap; the chunks whose writes succeeded
\* arrive unaltered, and when no write failed the destination's stream equals
\* the bytes consumed; a source holding 2048 bytes yields two chunks of 1024.
C7_Chunking ==
    /\ \A i \in 1..Len(log) :
         LET e == log[i]
         IN  /\ e.len = Min(e.avail, BUF_SIZE)
             /\ e.len >= 1
             /\ e.len <= BUF_SIZE
             /\ e.off = IF Before(i) = {} THEN 0
                        ELSE log[Prev(i)].off + log[Prev(i)].len
             /\ e.res = "ok" => Written(e) = Bytes(e)
             /\ (Before(i) # {} /\ log[Prev(i)].avail = 2 * BUF_SIZE) =>
                   /\ log[Prev(i)].len = BUF_SIZE
                   /\ e.len = BUF_SIZE
                   /\ e.off = log[Prev(i)].off + BUF_SIZE
    /\ \A src \in Sources :
         /\ Consumed(src) = IF Of(src) = {} THEN 0
                            ELSE log[LastOf(src)].off + log[LastOf(src)].len
         /\ (\A i \in Of(src) : log[i].res = "ok") =>
               DstStream(src) = SubSeq(SrcStream(src), 1, Consumed(src))

\* the device emitted 2048 bytes at once and the peer has received them in two
\* forwarding writes of 1024 bytes
C7_Witness ==
    /\ Len(log) = 2
    /\ log[1].src = "serial" /\ log[1].avail = 2 * BUF_SIZE
    /\ log[1].len = BUF_SIZE /\ log[1].res = "ok"
    /\ log[2].src = "serial" /\ log[2].len = BUF_SIZE /\ log[2].res = "ok"
    /\ tx_socket = sent_serial
    /\ Len(tx_socket) = 2 * BUF_SIZE

\* C8: each read of n >= 1 bytes leads to exactly one write_all, whose payload
\* is exactly the n bytes read, in order; a write that succeeded put exactly
\* those bytes on the destination as one contiguous run, and the destination's
\* stream holds nothing but the runs of the writes, one after the other.
C8_OneWritePerRead ==
    /\ \A i \in 1..Len(log) :
         LET e == log[i]
         IN  /\ e.res = "pending" =>
                   /\ i = Len(log)
                   /\ pc = WritePc(e.src)
                   /\ n = e.len
                   /\ Slice(SrcBuf(e.src), n) = Bytes(e)
             /\ e.res = "ok" => e.wrote = e.len /\ Written(e) = Bytes(e)
             /\ e.res = "failed" => e.wrote < e.len
             /\ e.txoff = IF Before(i) = {} THEN 0
                          ELSE log[Prev(i)].txoff + log[Prev(i)].wrote
    /\ pc \in {"write_socket", "write_serial"} =>
         /\ log # <<>>
         /\ log[Len(log)].res = "pending"
         /\ pc = WritePc(log[Len(log)].src)
    /\ \A src \in Sources :
         Len(DstStream(src)) = IF Of(src) = {} THEN 0
                               ELSE log[LastOf(src)].txoff
                                    + log[LastOf(src)].wrote

\* the peer sent "PING\n" and the serial endpoint received those 5 bytes in
\* the one write of the one read
C8_Witness ==
    /\ sent_socket = PING
    /\ Len(log) = 1
    /\ log[1].src = "socket" /\ log[1].len = 5 /\ log[1].res = "ok"
    /\ tx_serial = PING

StartupOrder == <<"open", "bind", "accept">>

\* C9: the startup steps run in the order open, bind, accept; a step that
\* fails is the last one attempted, the process then has exited with a
\* non-zero status, and the relay loop was never entered; the loop is entered
\* only after all three succeeded.
C9_StartupFailureIsFatal ==
    /\ Len(steps) <= 3
    /\ \A i \in 1..Len(steps) :
         /\ steps[i][1] = StartupOrder[i]
         /\ steps[i][2] = "failed" =>
               /\ i = Len(steps)
               /\ pc = "exit"
               /\ exit_code # 0 /\ exit_code # -1
               /\ log = <<>> /\ seen = {} /\ n = 0
               /\ tx_serial = <<>> /\ tx_socket = <<>>
               /\ (i = 1 => serial = Unopened)
               /\ (i <= 2 => listener = "none")
               /\ accepts = 0 /\ socket = 0
    /\ pc \in Relaying =>
         /\ Len(steps) = 3
         /\ \A i \in 1..3 : steps[i][2] = "ok"
         /\ exit_code = -1
    /\ pc = "exit" => steps # <<>> /\ steps[Len(steps)][2] = "failed"

\* accept failed after open and bind succeeded: the process has exited
C9_Witness ==
    /\ pc = "exit"
    /\ steps = <<<<"open", "ok">>, <<"bind", "ok">>, <<"accept", "failed">>>>
    /\ exit_code = 1

\* C10: accept completes at most once; the accepted connection is the first
\* one that arrived and is never replaced, and every later connection stays in
\* the listener's queue, whether or not the first peer has disconnected.
C10_SingleAccept ==
    /\ accepts <= 1
    /\ accepts = 0 => socket = 0
    /\ accepts = 1 =>
         /\ socket = 1
         /\ backlog = [i \in 1..(conns - 1) |-> i + 1]
    /\ pc \in Relaying => accepts = 1

\* the first peer has disconnected, a second connection has arrived, and the
\* relay is still serving the first one only
C10_Witness ==
    /\ pc \in Relaying
    /\ peer_closed
    /\ conns = 2
    /\ backlog = <<2>>
    /\ socket = 1

\* ------------------------------------------------- the two directions at once

Writing == {"write_socket", "write_serial"}

\* C11 as stated: while a forwarding write is awaited, data queued for the
\* opposite direction can still be read.
C11_Original ==
    /\ (pc = "write_socket" /\ rx_socket # <<>>) => ENABLED SocketBranch
    /\ (pc = "write_serial" /\ rx_serial # <<>>) => ENABLED SerialBranch

\* C11: a read that is pending on one endpoint does not hold back the other
\* endpoint's read: whichever has bytes queued can complete.  An awaited
\* write_all does hold back both directions: until it has completed or
\* failed no read is issued, and the bytes queued on either endpoint stay
\* queued, unaltered.
C11_WriteHoldsBackReads ==
    /\ [](pc = "select" =>
            /\ rx_serial # <<>> => ENABLED SerialBranch
            /\ rx_socket # <<>> => ENABLED SocketBranch)
    /\ [][(pc \in Writing) =>
            /\ rx_serial' = rx_serial
            /\ rx_socket' = rx_socket
            /\ Len(log') = Len(log)
            /\ log'[Len(log)].res # "pending"
            /\ pc' = "select"]_vars

\* a device chunk is being written to the socket while the peer's bytes,
\* none of them read yet, wait in the socket's queue
C11_Witness ==
    /\ pc = "write_socket"
    /\ rx_socket # <<>>
    /\ rx_socket = sent_socket
    /\ log[Len(log)].res = "pending"

Other(src) == IF src = "serial" THEN "socket" ELSE "serial"

\* no read of this endpoint has completed and none can: it has sent nothing,
\* it is not at end of stream
Silent(src) ==
    /\ Marks(src) = <<>>
    /\ \A kind \in {"zero", "err"} : <<src, kind>> \notin seen
    /\ src = "socket" => ~peer_closed

\* C12: a read of an endpoint that has nothing queued and is not at end of
\* stream completes only when the endpoint reports an I/O fault, never by a
\* timeout of the relay's own; and, under fair scheduling, while one
\* endpoint stays silent every emission of the other one is eventually read
\* and forwarded whole (or, if its write_all fails, dropped).
C12_SilentEndpointStaysPending ==
    /\ [][/\ (SerialBranch /\ rx_serial = <<>>) => faults' = faults + 1
          /\ (SocketBranch /\ rx_socket = <<>> /\ ~peer_closed)
                => faults' = faults + 1]_vars
    /\ \A src \in Sources : \A k \in 1..MaxEmits :
          (Silent(Other(src)) /\ Len(Marks(src)) >= k)
              ~> \/ Delivered(src, k)
                 \/ Dropped(src, k)
                 \/ ~Silent(Other(src))

\* the serial device never sent a byte and no read of it ever completed, and
\* the peer's write has reached the serial endpoint whole
C12_Witness ==
    /\ Silent("serial")
    /\ Delivered("socket", 1)
    /\ pc = "select"

\* ---------------------------------------------------------------- data bits

Warnings == {i \in 1..Len(stderr) : stderr[i] = "Unsupported data bits"}

\* C13: once the data-bits match has run, a configured value in {5,6,7,8}
\* is the value in use and no warning was written; any other value leaves 8
\* in use and exactly one warning on stderr.  The serial port is opened
\* with the value in use, and the process exits during startup only because
\* open, bind or accept failed, never because of the data-bits value.
C13_DataBitsFallback ==
    pc # "parse" =>
        /\ args.data_bits \in {5, 6, 7, 8} =>
              data_bits = args.data_bits /\ Warnings = {}
        /\ args.data_bits \notin {5, 6, 7, 8} =>
              data_bits = 8 /\ Cardinality(Warnings) = 1
        /\ (steps # <<>> /\ steps[1] = <<"open", "ok">>) =>
              serial.data_bits = data_bits
        /\ pc = "exit" => steps # <<>> /\ steps[Len(steps)][2] = "failed"

\* run with --data-bits 9: the relay has started on a port opened with 8
\* data bits, and the warning is on stderr
C13_Witness ==
    /\ pc = "select"
    /\ args.data_bits = 9
    /\ serial.data_bits = 8
    /\ stderr = <<"Unsupported data bits">>
    /\ steps = <<<<"open", "ok">>, <<"bind", "ok">>, <<"accept", "ok">>>>

\* ------------------------------------------------------------------- output

StatusLines == {"Listening on port", "Client connected"}

ReadErrorLines == {"Serial read error", "Socket read error"}

WriteErrorLines == {"Client write failed", "Serial write failed"}

FailedWrites == {i \in 1..Len(log) : log[i].res = "failed"}

LinesOf(out, kinds) == {i \in 1..Len(out) : out[i] \in kinds}

\* C14: stdout carries status lines only; every read that returned Err has
\* left a read-error line on stderr and every write_all that failed has left
\* a write-error line on stderr.
C14_ErrorsOnStderr ==
    /\ \A i \in 1..Len(stdout) : stdout[i] \in StatusLines
    /\ ErrSeen => LinesOf(stderr, ReadErrorLines) # {}
    /\ Cardinality(LinesOf(stderr, WriteErrorLines))
         = Cardinality(FailedWrites)

\* ------------------------------------------------------------ one at a time

\* the reads whose write_all is still awaited
Pending == {i \in 1..Len(log) : log[i].res = "pending"}

\* C15: a step of the loop completes the read of one endpoint only; at most
\* one write_all is awaited at any time, it is the write of the latest read,
\* and while it is awaited neither read and no other write can run; the
\* reads are issued again only after it has completed or failed.
C15_OneReadThenItsWrite ==
    /\ [](/\ Cardinality(Pending) <= 1
          /\ Pending # {} =>
                /\ Pending = {Len(log)}
                /\ pc = WritePc(log[Len(log)].src)
          /\ pc \in Writing =>
                /\ Pending # {}
                /\ ~ENABLED SerialBranch
                /\ ~ENABLED SocketBranch
          /\ pc = "write_socket" => ~ENABLED SerialWriteAll
          /\ pc = "write_serial" => ~ENABLED SocketWriteAll
          /\ pc = "select" =>
                /\ Pending = {}
                /\ n = 0
                /\ ~ENABLED SerialWriteAll
                /\ ~ENABLED SocketWriteAll)
    /\ [][/\ rx_serial' = rx_serial \/ rx_socket' = rx_socket
          /\ serial_buf' = serial_buf \/ socket_buf' = socket_buf
          /\ Len(log') <= Len(log) + 1]_vars

\* both endpoints had data; the device's first chunk was read and written,
\* then the peer's chunk was read, and its write is awaited while the rest
\* of the device's bytes wait
C15_Witness ==
    /\ pc = "write_serial"
    /\ Len(log) = 2
    /\ log[1].src = "serial"
    /\ log[1].res = "ok"
    /\ Pending = {2}
    /\ rx_serial # <<>>

\* ---------------------------------------------------------- the losing read

\* where the i-th read started if no byte of its source was skipped
ExpectedOff(i) ==
    IF Before(i) = {} THEN 0 ELSE log[Prev(i)].off + log[Prev(i)].len

\* C16: a step in which one endpoint's read completes while the other
\* endpoint has bytes queued leaves those bytes, and the other read's buffer,
\* as they were; what is queued on an endpoint is always the unread rest of
\* what it sent, and every read of it starts where the previous one ended,
\* so the bytes left by a lost race are what a later read returns.
C16_LosingReadConsumesNothing ==
    /\ [][/\ (SerialBranch /\ rx_socket # <<>>) =>
                (rx_socket' = rx_socket /\ socket_buf' = socket_buf)
          /\ (SocketBranch /\ rx_serial # <<>>) =>
                (rx_serial' = rx_serial /\ serial_buf' = serial_buf)]_vars
    /\ [](/\ \A src \in Sources :
                SrcQueue(src) = SubSeq(SrcStream(src), Consumed(src) + 1,
                                       Len(SrcStream(src)))
          /\ \A i \in 1..Len(log) :
                /\ log[i].off = ExpectedOff(i)
                /\ log[i].avail = Len(SrcStream(log[i].src)) - log[i].off)

\* the serial read won the first race while the peer's bytes were queued;
\* the next read of the socket returned those bytes from their first one on,
\* and they reached the serial endpoint
C16_Witness ==
    /\ Len(log) >= 2
    /\ log[1].src = "serial"
    /\ log[2].src = "socket"
    /\ log[2].off = 0
    /\ log[2].avail = Len(sent_socket)
    /\ log[2].res = "ok"
    /\ Written(log[2]) = SubSeq(sent_socket, 1, log[2].len)

\* -------------------------------------------------------------- the handles

\* C17: in the relay loop the serial handle and its configuration, the
\* accepted connection and the listener are the ones startup created, and no
\* step taken in the loop (a read of data, a zero-length read, a read error,
\* a write, a failed write) changes them, accepts a connection or leaves the
\* loop.
C17_EndpointsUntouched ==
    /\ [](pc \in Relaying =>
            /\ serial = [data_bits |-> data_bits, flow_control |-> "None"]
            /\ listener = "bound"
            /\ socket = 1
            /\ accepts = 1)
    /\ [][(pc \in Relaying) =>
            /\ serial' = serial
            /\ data_bits' = data_bits
            /\ listener' = listener
            /\ socket' = socket
            /\ accepts' = accepts
            /\ steps' = steps
            /\ pc' \in Relaying]_vars

\* a forwarding write has failed and another connection waits at the
\* listener: the relay is at the top of its loop with the handles it started
\* with
C17_Witness ==
    /\ pc = "select"
    /\ FailedWrites # {}
    /\ backlog # <<>>
    /\ socket = 1
    /\ serial = [data_bits |-> DEFAULT_DATA_BITS, flow_control |-> "None"]
    /\ listener = "bound"

\* ------------------------------------------------------- what was written

RECURSIVE ForwardedUpTo(_, _)
\* what the first i reads have put on the endpoint opposite to src: of each
\* read of src, in read order, the part of its chunk that its write got out
ForwardedUpTo(src, i) ==
    IF i = 0
    THEN <<>>
    ELSE ForwardedUpTo(src, i - 1)
           \o (IF log[i].src = src
               THEN SubSeq(Bytes(log[i]), 1, log[i].wrote)
               ELSE <<>>)

\* C18: what has been written to an endpoint is, chunk by chunk in read
\* order, what was read from the opposite endpoint: the whole chunk when its
\* write_all succeeded, a proper (possibly empty) prefix of it when the write
\* failed, nothing yet while the write is awaited.  Every read starts where
\* the previous read of its source ended, so no chunk, failed or not, is read
\* or sent a second time.
C18_WrittenIsWhatWasRead ==
    /\ \A src \in Sources :
          DstStream(src) = ForwardedUpTo(src, Len(log))
    /\ \A i \in 1..Len(log) :
          /\ log[i].res = "ok" => log[i].wrote = log[i].len
          /\ log[i].res = "failed" => log[i].wrote < log[i].len
          /\ log[i].res = "pending" => log[i].wrote = 0
          /\ \A j \in Before(i) : log[j].off + log[j].len <= log[i].off

\* both directions have carried data; one chunk's write failed after part of
\* it got out, and everything queued has been read
C18_Witness ==
    /\ pc = "select"
    /\ rx_serial = <<>> /\ rx_socket = <<>>
    /\ tx_serial # <<>> /\ tx_socket # <<>>
    /\ \E i \in FailedWrites : log[i].wrote > 0
    /\ \E i \in 1..Len(log) : log[i].res = "ok" /\ log[i].src = "serial"
    /\ \E i \in 1..Len(log) : log[i].res = "ok" /\ log[i].src = "socket"

\* --------------------------------------------------- after the peer is gone

\* every byte of the k-th emission has been read and the write_all of each
\* chunk carrying some of them has been called and has returned
Attempted(src, k) ==
    /\ Len(Marks(src)) >= k
    /\ Consumed(src) >= Hi(src, k)
    /\ \A i \in Carriers(src, k) : log[i].res # "pending"

\* C19: once the peer has disconnected the process stays in the relay loop;
\* with the socket drained its read can complete at the top of every
\* iteration (with Ok(0)); and, under fair scheduling, every emission of the
\* serial device is still read in full and a write_all to the socket called
\* for each of its chunks.
C19_SerialServedAfterDisconnect ==
    /\ [](peer_closed => pc \in Relaying /\ exit_code = -1)
    /\ []((peer_closed /\ rx_socket = <<>> /\ pc = "select") =>
            ENABLED SocketBranch)
    /\ \A k \in 1..MaxEmits :
          (peer_closed /\ Len(marks_serial) >= k) ~> Attempted("serial", k)

\* the peer is gone, a socket read has returned Ok(0) with no fault
\* involved, and the device's emission has been read and written out
C19_Witness ==
    /\ peer_closed
    /\ <<"socket", "zero">> \in seen
    /\ faults = 0
    /\ Attempted("serial", 1)
    /\ pc = "select"

====
